---- MODULE Spec2Model ----
(***************************************************************************)
(* A model of data/generate_glove_subset.py: the Acquisition stage         *)
(* (download_glove), the Extraction stage (generate_subset) and the        *)
(* __main__ entry point that runs one after the other.                     *)
(*                                                                         *)
(* The filesystem is the script's directory: GLOVE_TXT, GLOVE_ZIP and      *)
(* OUTPUT_FILE.  The source text is read line by line; each line the loop  *)
(* consumes is drawn from LineSet, and `lines` is the part of the file     *)
(* read so far.                                                            *)
(***************************************************************************)
EXTENDS Integers, Sequences, FiniteSets, TLC

VARIABLES pc, cwd, txt, zip, io, error,
          lines, embeddings, line_count, missing, outFile

vars == <<pc, cwd, txt, zip, io, error,
          lines, embeddings, line_count, missing, outFile>>

fsVars == <<txt, zip>>
subsetVars == <<lines, embeddings, line_count, missing, outFile>>

(***************************************************************************)
(* Bounds of the model.                                                    *)
(***************************************************************************)
\* The longest source file explored, in lines.
MaxLines == 3
\* The source sets VOCAB_SIZE = 5000; the model scales the cut-off down so
\* that files longer than the cut-off are explored.
VOCAB_SIZE == 1
\* How often the acquisition harness calls download_glove in a row.
MaxCalls == 3

(***************************************************************************)
(* Program constants.                                                      *)
(***************************************************************************)
\* The dimensionality the loop compares len(vec) with.
D == 50
\* A part of the source's REQUIRED_WORDS.
REQUIRED_WORDS == {"king", "queen"}

\* The words that occur in the explored source files: two that are not
\* required, one that is; "queen" occurs in no explored file.
Words == {"the", "of", "king"}

(***************************************************************************)
(* Lines of the text file.  A line is a sequence of atoms: a token or one  *)
(* whitespace character.                                                   *)
(***************************************************************************)
Whitespace == {" ", "\n"}

MkLine(word, toks) ==
    [i \in 1..(2 * Len(toks) + 2) |->
        IF i = 1 THEN word
        ELSE IF i = 2 * Len(toks) + 2 THEN "\n"
        ELSE IF i % 2 = 0 THEN " "
        ELSE toks[(i - 1) \div 2]]

Fill(n, tok) == [i \in 1..n |-> tok]

\* The token sequences that are not 50 numbers: one short, one long, and 50
\* of which the last is no number.
Malformed ==
    { Fill(D - 1, "0.1"), Fill(D + 1, "0.1"), Append(Fill(D - 1, "0.1"), "abc") }

\* The explored lines: every word on a well-formed line; the required word
\* with a second vector; a word that is not required and the required word
\* on each malformed line; the empty line.
LineSet ==
    { MkLine(w, Fill(D, "0.1")) : w \in Words }
        \cup { MkLine("king", Fill(D, "0.1234567")) }
        \cup { MkLine(w, t) : w \in {"the", "king"}, t \in Malformed }
        \cup { <<"\n">> }

\* line.strip().split(): the maximal runs of non-whitespace.
Split(line) == SelectSeq(line, LAMBDA a : a \notin Whitespace)

\* float(x), for the tokens explored, in units of 10^-7; a token outside
\* the domain makes float raise ValueError.
FloatValue == ("0.1" :> 1000000) @@ ("0.1234567" :> 1234567)

IsFloat(x) == x \in DOMAIN FloatValue

\* round(v, 6) of a non-negative value given in units of 10^-7, in units
\* of 10^-6.
Round6(v) == (v + 5) \div 10

\* [round(float(x), 6) for x in parts[1:]]
ParseVec(toks) == [i \in 1..Len(toks) |-> Round6(FloatValue[toks[i]])]

\* Mutants of Keep: the cut-off one too far; no filter at all.
KeepOffByOne(count, word) == count <= VOCAB_SIZE \/ word \in REQUIRED_WORDS
KeepEverything(count, word) == TRUE

\* The condition of the loop's first if.
Keep(count, word) == count < VOCAB_SIZE \/ word \in REQUIRED_WORDS

\* Mutants of DimOk: a one-sided comparison.
DimOkAtLeast(vec) == Len(vec) >= D
DimOkAtMost(vec) == Len(vec) <= D

\* The condition of the loop's second if.
DimOk(vec) == Len(vec) = D

(***************************************************************************)
(* The embedding table: a Python dict, kept as the sequence of its items   *)
(* in insertion order.                                                     *)
(***************************************************************************)
Keys(d) == { d[i].word : i \in DOMAIN d }

Lookup(d, k) == d[CHOOSE i \in DOMAIN d : d[i].word = k].vec

\* Mutant of DictSet: embeddings = {word: vec}.
DictSetFresh(d, k, v) == <<[word |-> k, vec |-> v]>>

\* d[k] = v
DictSet(d, k, v) ==
    IF k \in Keys(d)
    THEN [i \in DOMAIN d |-> IF d[i].word = k THEN [word |-> k, vec |-> v] ELSE d[i]]
    ELSE Append(d, [word |-> k, vec |-> v])

\* Mutant of NextCount: the increment forgotten.
NextCountStuck(count) == count

\* line_count += 1
NextCount(count) == count + 1

\* Mutant of Missing: the difference taken the other way round.
MissingReversed(d) == Keys(d) \ REQUIRED_WORDS

\* REQUIRED_WORDS - set(embeddings.keys())
Missing(d) == REQUIRED_WORDS \ Keys(d)

(***************************************************************************)
(* json.dump(embeddings, f, separators=(',', ':')): the file as a sequence *)
(* of JSON tokens.                                                         *)
(***************************************************************************)
Tok(t, s, n) == [t |-> t, s |-> s, n |-> n]
Punct(c) == Tok(c, "", 0)

NumList(vec) ==
    [i \in 1..(2 * Len(vec) - 1) |->
        IF i % 2 = 1 THEN Tok("num", "", vec[(i + 1) \div 2]) ELSE Punct(",")]

ItemTokens(e) ==
    <<Tok("str", e.word, 0), Punct(":"), Punct("[")>> \o NumList(e.vec) \o <<Punct("]")>>

RECURSIVE Members(_)
Members(d) ==
    IF d = <<>> THEN <<>>
    ELSE IF Len(d) = 1 THEN ItemTokens(d[1])
    ELSE ItemTokens(d[1]) \o <<Punct(",")>> \o Members(Tail(d))

JsonDump(d) == <<Punct("{")>> \o Members(d) \o <<Punct("}")>>

(***************************************************************************)
(* The I/O the program has performed, each with the filesystem it found.   *)
(***************************************************************************)
Ev(op) == [op |-> op, txt |-> txt, zip |-> zip]

Did(op) == io' = Append(io, Ev(op))

\* The corpora a GLOVE_TXT, or the GLOVE_TXT member of an archive, may
\* hold, and what the server may send for the archive.
Corpora == {"glove", "stale"}
Served == {"glove", "corrupt"}

Raise(e) == pc' = "failed" /\ error' = e

(***************************************************************************)
(* __main__                                                                *)
(***************************************************************************)
\* os.chdir(os.path.dirname(os.path.abspath(__file__))); download_glove()
Chdir ==
    /\ pc = "main"
    /\ cwd' = "script_dir"
    /\ Did("chdir")
    /\ pc' = "download_glove"
    /\ UNCHANGED <<fsVars, error, subsetVars>>

(***************************************************************************)
(* download_glove                                                          *)
(***************************************************************************)
\* Mutant of CheckTxt: the early return left out.
CheckTxtNoReturn ==
    /\ pc = "download_glove"
    /\ Did("exists_txt")
    /\ pc' = "dl_check_zip"
    /\ UNCHANGED <<cwd, fsVars, error, subsetVars>>

\* if os.path.exists(GLOVE_TXT): return
CheckTxt ==
    /\ pc = "download_glove"
    /\ Did("exists_txt")
    /\ pc' = IF txt # "absent" THEN "dl_return" ELSE "dl_check_zip"
    /\ UNCHANGED <<cwd, fsVars, error, subsetVars>>

\* Mutant of CheckZip: the archive fetched whether it is there or not.
CheckZipAlwaysFetch ==
    /\ pc = "dl_check_zip"
    /\ Did("exists_zip")
    /\ pc' = "dl_fetch"
    /\ UNCHANGED <<cwd, fsVars, error, subsetVars>>

\* if not os.path.exists(GLOVE_ZIP):
CheckZip ==
    /\ pc = "dl_check_zip"
    /\ Did("exists_zip")
    /\ pc' = IF zip = "absent" THEN "dl_fetch" ELSE "dl_extract"
    /\ UNCHANGED <<cwd, fsVars, error, subsetVars>>

\* urllib.request.urlretrieve(GLOVE_URL, GLOVE_ZIP, reporthook) returns:
\* the archive holds what the server sent.
FetchOk ==
    /\ pc = "dl_fetch"
    /\ Did("urlretrieve")
    /\ \E got \in Served : zip' = got
    /\ pc' = "dl_extract"
    /\ UNCHANGED <<cwd, txt, error, subsetVars>>

\* urlretrieve raises: before the archive was created, or leaving a part
\* of it behind.
FetchFail ==
    /\ pc = "dl_fetch"
    /\ Did("urlretrieve")
    /\ \E left \in {"absent", "corrupt"} : zip' = left
    /\ Raise("URLError")
    /\ UNCHANGED <<cwd, txt, subsetVars>>

\* Mutant of Extract: a failed extraction passed over in silence.
ExtractSwallow ==
    /\ pc = "dl_extract"
    /\ Did("extract")
    /\ txt' = IF zip \in Corpora THEN zip ELSE txt
    /\ pc' = "dl_return"
    /\ UNCHANGED <<cwd, zip, error, subsetVars>>

\* with zipfile.ZipFile(GLOVE_ZIP, 'r') as zf: zf.extract(GLOVE_TXT, '.')
Extract ==
    /\ pc = "dl_extract"
    /\ Did("extract")
    /\ IF zip \in Corpora
       THEN /\ txt' = zip
            /\ pc' = "dl_return"
            /\ UNCHANGED error
       ELSE /\ Raise("BadZipFile")
            /\ UNCHANGED txt
    /\ UNCHANGED <<cwd, zip, subsetVars>>

\* download_glove returns to __main__, which calls generate_subset.
CallGenerateSubset ==
    /\ pc = "dl_return"
    /\ Did("returned")
    /\ pc' = "generate_subset"
    /\ UNCHANGED <<cwd, fsVars, error, subsetVars>>

(***************************************************************************)
(* generate_subset                                                         *)
(***************************************************************************)
\* embeddings = {}; line_count = 0; open(GLOVE_TXT, 'r')
OpenTxt ==
    /\ pc = "generate_subset"
    /\ Did("open_txt")
    /\ IF txt # "absent"
       THEN /\ embeddings' = <<>>
            /\ line_count' = 0
            /\ pc' = "loop"
            /\ UNCHANGED error
       ELSE /\ Raise("FileNotFoundError")
            /\ UNCHANGED <<embeddings, line_count>>
    /\ UNCHANGED <<cwd, fsVars, lines, missing, outFile>>

\* One iteration of `for line in f`.
LoopBody ==
    /\ pc = "loop"
    /\ Len(lines) < MaxLines
    /\ \E line \in LineSet :
         LET parts == Split(line) IN
         /\ lines' = Append(lines, line)
         /\ IF parts = <<>>
            THEN /\ Raise("IndexError")
                 /\ UNCHANGED <<embeddings, line_count>>
            ELSE LET word == parts[1]
                     toks == Tail(parts)
                 IN  IF Keep(line_count, word)
                     THEN IF \A i \in DOMAIN toks : IsFloat(toks[i])
                          THEN /\ embeddings' =
                                     IF DimOk(ParseVec(toks))
                                     THEN DictSet(embeddings, word, ParseVec(toks))
                                     ELSE embeddings
                               /\ line_count' = NextCount(line_count)
                               /\ UNCHANGED <<pc, error>>
                          ELSE /\ Raise("ValueError")
                               /\ UNCHANGED <<embeddings, line_count>>
                     ELSE /\ line_count' = NextCount(line_count)
                          /\ UNCHANGED <<pc, error, embeddings>>
    /\ UNCHANGED <<cwd, fsVars, io, missing, outFile>>

\* The file is exhausted: the required words are verified, the JSON file is
\* written, generate_subset returns and __main__ ends.
WriteJson ==
    /\ pc = "loop"
    /\ missing' = Missing(embeddings)
    /\ Did("write_json")
    /\ outFile' = JsonDump(embeddings)
    /\ pc' = "done"
    /\ UNCHANGED <<cwd, fsVars, error, lines, embeddings, line_count>>

(***************************************************************************)
(* The program.                                                            *)
(***************************************************************************)
InitSubset ==
    /\ lines = <<>>
    /\ embeddings = <<>>
    /\ line_count = 0
    /\ missing = {}
    /\ outFile = <<>>

Init ==
    /\ pc = "main"
    /\ cwd = "caller_dir"
    /\ txt \in {"absent", "glove"}
    /\ zip \in {"absent", "corrupt", "glove"}
    /\ io = <<>>
    /\ error = "none"
    /\ InitSubset

Next ==
    \/ Chdir
    \/ CheckTxt
    \/ CheckZip
    \/ FetchOk
    \/ FetchFail
    \/ Extract
    \/ CallGenerateSubset
    \/ OpenTxt
    \/ LoopBody
    \/ WriteJson

Spec == Init /\ [][Next]_vars

(***************************************************************************)
(* download_glove called several times in a row on one filesystem, each    *)
(* call after the one before it has returned or raised.                    *)
(***************************************************************************)
Calls == { i \in DOMAIN io : io[i].op = "exists_txt" }

CallAgain ==
    /\ pc \in {"dl_return", "failed"}
    /\ Cardinality(Calls) < MaxCalls
    /\ Did(IF pc = "failed" THEN "raised" ELSE "returned")
    /\ pc' = "download_glove"
    /\ error' = "none"
    /\ UNCHANGED <<cwd, fsVars, subsetVars>>

InitAcq ==
    /\ pc = "download_glove"
    /\ cwd = "script_dir"
    /\ txt \in {"absent"} \cup Corpora
    /\ zip \in {"absent", "corrupt"} \cup Corpora
    /\ io = <<>>
    /\ error = "none"
    /\ InitSubset

NextAcq ==
    \/ CheckTxt
    \/ CheckZip
    \/ FetchOk
    \/ FetchFail
    \/ Extract
    \/ CallAgain

SpecAcq == InitAcq /\ [][NextAcq]_vars

(***************************************************************************)
(* What the claims speak of: the lines read so far, as the source file     *)
(* shows them, and the JSON file as a reader parses it.                    *)
(***************************************************************************)
\* Read off the raw line: its first token is the word, the others are the
\* components.
TokenAt(l) == { i \in DOMAIN l : l[i] \notin Whitespace }
NonBlank(l) == TokenAt(l) # {}
WordAt(l) == CHOOSE i \in TokenAt(l) : \A j \in TokenAt(l) : i <= j
WordOf(l) == l[WordAt(l)]
NumToks(l) == Cardinality(TokenAt(l)) - 1
Numeric(l) == \A i \in TokenAt(l) \ {WordAt(l)} : l[i] \in {"0.1", "0.1234567"}
WellFormed(l) == NonBlank(l) /\ NumToks(l) = 50 /\ Numeric(l)
AllWellFormed == \A i \in DOMAIN lines : WellFormed(lines[i])

\* The line at index i, zero-based position i - 1, is kept.
KeptAt(i) == i - 1 < VOCAB_SIZE \/ WordOf(lines[i]) \in REQUIRED_WORDS

Running == pc \in {"loop", "done"}

\* json.load of the file: the keys in the order written, and the mapping.
JsonKeys(file) ==
    LET ks == SelectSeq(file, LAMBDA x : x.t = "str")
    IN  [i \in DOMAIN ks |-> ks[i].s]

JsonArrayAt(file, i) ==
    LET closes == { j \in i..Len(file) : file[j].t = "]" }
        close == CHOOSE j \in closes : \A k \in closes : j <= k
        nums == SelectSeq(SubSeq(file, i, close), LAMBDA x : x.t = "num")
    IN  [k \in DOMAIN nums |-> nums[k].n]

JsonLoad(file) ==
    LET at == { i \in DOMAIN file : file[i].t = "str" }
    IN  [w \in { file[i].s : i \in at } |->
            JsonArrayAt(file, CHOOSE i \in at :
                                 file[i].s = w /\ \A j \in at : file[j].s = w => j <= i)]

AsMap(d) == [w \in Keys(d) |-> Lookup(d, w)]

Range(q) == { q[i] : i \in DOMAIN q }

(***************************************************************************)
(* C1.  Keep-predicate correctness: while the lines read are all           *)
(* well-formed (a word and exactly 50 numeric tokens), the keys of the     *)
(* table are exactly the words of the lines at zero-based positions        *)
(* 0..K-1 together with the required words seen on any line, each once;    *)
(* the written JSON object has exactly these keys, each once.  So a word   *)
(* that occurs only at positions >= K and is not required is never there.  *)
(***************************************************************************)
FirstK == { WordOf(lines[i]) : i \in { j \in DOMAIN lines : j <= VOCAB_SIZE } }
RequiredSeen == { WordOf(lines[i]) : i \in DOMAIN lines } \cap REQUIRED_WORDS

C1_KeepPredicate ==
    (Running /\ AllWellFormed) =>
        /\ Keys(embeddings) = FirstK \cup RequiredSeen
        /\ Cardinality(Keys(embeddings)) = Len(embeddings)
        /\ pc = "done" =>
              /\ Range(JsonKeys(outFile)) = FirstK \cup RequiredSeen
              /\ Cardinality(Range(JsonKeys(outFile))) = Len(JsonKeys(outFile))

\* A written file of more than K well-formed lines, with beyond the first K
\* both a required word (in the output) and a word that is left out.
C1_Witness ==
    /\ pc = "done"
    /\ AllWellFormed
    /\ Len(lines) > VOCAB_SIZE
    /\ \E i \in DOMAIN lines :
          i > VOCAB_SIZE /\ WordOf(lines[i]) \notin Range(JsonKeys(outFile))
    /\ \E i \in DOMAIN lines :
          /\ i > VOCAB_SIZE
          /\ WordOf(lines[i]) \in REQUIRED_WORDS \ FirstK
          /\ WordOf(lines[i]) \in Range(JsonKeys(outFile))

(***************************************************************************)
(* C4.  Dimensionality guard: a kept line whose numeric tokens are fewer   *)
(* or more than 50 is not inserted, the run does not abort on it, and the  *)
(* later lines go through the same keep rule: the keys of the table are    *)
(* exactly the words of the kept lines with 50 tokens, and the run fails   *)
(* only on a line that cannot be parsed.                                   *)
(***************************************************************************)
C4_DimensionGuard ==
    /\ Running =>
          Keys(embeddings) =
             { WordOf(lines[i]) :
                 i \in { j \in DOMAIN lines : KeptAt(j) /\ NumToks(lines[j]) = 50 } }
    /\ (pc = "failed" /\ lines # <<>>) =>
          LET l == lines[Len(lines)]
          IN  ~NonBlank(l) \/ ~Numeric(l)

\* A kept line of the wrong length was dropped and a later line inserted.
C4_Witness ==
    /\ Running
    /\ \E i, j \in DOMAIN lines :
          /\ i < j
          /\ KeptAt(i)
          /\ NumToks(lines[i]) # 50
          /\ WordOf(lines[i]) \notin Keys(embeddings)
          /\ WordOf(lines[j]) \in Keys(embeddings)
    /\ \E i \in DOMAIN lines : KeptAt(i) /\ NumToks(lines[i]) > 50
    /\ \E i \in DOMAIN lines : KeptAt(i) /\ NumToks(lines[i]) < 50

(***************************************************************************)
(* C10.  Line-count cursor: the cursor counts every line consumed, whether *)
(* it was inserted, dropped by the guard or not kept; so a non-required    *)
(* word in the table stands on one of the first K lines of the file, and   *)
(* the table never holds more than K non-required words.                   *)
(***************************************************************************)
C10_LineCountCursor ==
    Running =>
        /\ line_count = Len(lines)
        /\ \A w \in Keys(embeddings) \ REQUIRED_WORDS :
              \E i \in DOMAIN lines : i <= VOCAB_SIZE /\ WordOf(lines[i]) = w
        /\ Cardinality(Keys(embeddings) \ REQUIRED_WORDS) <= VOCAB_SIZE

\* A malformed line among the first K was dropped, and the non-required
\* line at position K was not taken in its place.
C10_Witness ==
    /\ Running
    /\ Len(lines) > VOCAB_SIZE
    /\ \E i \in DOMAIN lines :
          i <= VOCAB_SIZE /\ NumToks(lines[i]) # 50
    /\ WellFormed(lines[VOCAB_SIZE + 1])
    /\ WordOf(lines[VOCAB_SIZE + 1]) \notin REQUIRED_WORDS
    /\ WordOf(lines[VOCAB_SIZE + 1]) \notin Keys(embeddings)
    /\ Cardinality(Keys(embeddings) \ REQUIRED_WORDS) < VOCAB_SIZE

(***************************************************************************)
(* C5.  Missing-word reporting: once the pass is over, the set reported    *)
(* missing is REQUIRED_WORDS less the keys of the table, that is every     *)
(* required word with no kept 50-component line in the source (absent, or  *)
(* present only on dropped lines); a non-empty set does not stop the run:  *)
(* the output file is written without those words.                         *)
(***************************************************************************)
C5_MissingReport ==
    pc = "done" =>
        /\ missing = { w \in REQUIRED_WORDS : w \notin Keys(embeddings) }
        /\ missing =
             { w \in REQUIRED_WORDS :
                 \A i \in DOMAIN lines : WordOf(lines[i]) = w => NumToks(lines[i]) # 50 }
        /\ error = "none"
        /\ outFile # <<>>
        /\ Range(JsonKeys(outFile)) \cap missing = {}
        /\ REQUIRED_WORDS \ missing \subseteq Range(JsonKeys(outFile))

\* The run is over with the output written; one required word never
\* occurred, one occurred only on a dropped line.
C5_Witness ==
    /\ pc = "done"
    /\ outFile # <<>>
    /\ "queen" \in missing
    /\ "king" \in missing
    /\ \E i \in DOMAIN lines : WordOf(lines[i]) = "king"
    /\ \A i \in DOMAIN lines : WordOf(lines[i]) # "queen"

(***************************************************************************)
(* C6.  Output shape: at every point of Extraction every vector of the     *)
(* table has exactly 50 numbers, and the JSON file read back is the table: *)
(* the same keys, each with its vector of 50 numbers.                      *)
(***************************************************************************)
C6_OutputShape ==
    /\ \A i \in DOMAIN embeddings :
          /\ Len(embeddings[i].vec) = 50
          /\ \A k \in DOMAIN embeddings[i].vec : embeddings[i].vec[k] \in Nat
    /\ pc = "done" =>
          /\ outFile # <<>>
          /\ DOMAIN JsonLoad(outFile) = Keys(embeddings)
          /\ \A w \in DOMAIN JsonLoad(outFile) :
                /\ Len(JsonLoad(outFile)[w]) = 50
                /\ JsonLoad(outFile)[w] = Lookup(embeddings, w)

\* A file was written that holds two words, and lines of the wrong length
\* had been read.
C6_Witness ==
    /\ pc = "done"
    /\ Cardinality(DOMAIN JsonLoad(outFile)) >= 2
    /\ \E i \in DOMAIN lines : KeptAt(i) /\ NumToks(lines[i]) # 50

(***************************************************************************)
(* The calls of download_glove in the record of events.  A call starts at  *)
(* its exists_txt event; its events run to the next call's.                *)
(***************************************************************************)
NextCall(i) ==
    LET later == { j \in Calls : j > i } \cup { Len(io) + 1 }
    IN  CHOOSE j \in later : \A k \in later : j <= k

PrevCall(i) ==
    LET earlier == { j \in Calls : j < i }
    IN  CHOOSE j \in earlier : \A k \in earlier : k <= j

Ops(i, op) == { j \in i..(NextCall(i) - 1) : io[j].op = op }

InProgress(i) == NextCall(i) > Len(io) /\ Ops(i, "returned") = {}

Returned(i) == Ops(i, "returned") # {} \/ (InProgress(i) /\ pc = "dl_return")

\* The filesystem the call left behind, once it is over.
Over(i) == Ops(i, "returned") \cup Ops(i, "raised")
TxtAfter(i) == IF Over(i) # {} THEN io[CHOOSE j \in Over(i) : TRUE].txt ELSE txt
ZipAfter(i) == IF Over(i) # {} THEN io[CHOOSE j \in Over(i) : TRUE].zip ELSE zip

(***************************************************************************)
(* C2.  Idempotence of Acquisition: of two calls of download_glove in a    *)
(* row, the first returning, the two together fetch at most once, and the  *)
(* second does nothing: no look at the archive, no fetch, no extraction,   *)
(* no failure, and the archive and the text file stay as the first call    *)
(* left them.                                                              *)
(***************************************************************************)
C2_Idempotent ==
    \A i \in Calls :
        (i > 1 /\ io[i - 1].op = "returned") =>
            /\ Cardinality(Ops(PrevCall(i), "urlretrieve") \cup Ops(i, "urlretrieve")) <= 1
            /\ Ops(i, "exists_zip") = {}
            /\ Ops(i, "urlretrieve") = {}
            /\ Ops(i, "extract") = {}
            /\ Ops(i, "raised") = {}
            /\ InProgress(i) => pc = "dl_return"
            /\ \A j \in i..(NextCall(i) - 1) :
                  io[j].txt = io[i - 1].txt /\ io[j].zip = io[i - 1].zip
            /\ TxtAfter(i) = io[i - 1].txt
            /\ ZipAfter(i) = io[i - 1].zip

\* The first call fetched and extracted, and the second has returned.
C2_Witness ==
    \E i \in Calls :
        /\ i > 1
        /\ io[i - 1].op = "returned"
        /\ Ops(PrevCall(i), "urlretrieve") # {}
        /\ Ops(PrevCall(i), "extract") # {}
        /\ InProgress(i)
        /\ pc = "dl_return"

(***************************************************************************)
(* C3.  Acquisition postcondition and step selection: when a call of       *)
(* download_glove returns the text file exists; a call fetches only if it  *)
(* found neither the text file nor the archive, it extracts only if it     *)
(* found no text file, a returning call has extracted exactly if it found  *)
(* no text file, and a fetch comes before the extraction.                  *)
(***************************************************************************)
C3_Acquisition ==
    \A i \in Calls :
        /\ Returned(i) => TxtAfter(i) # "absent"
        /\ Ops(i, "urlretrieve") # {} =>
              io[i].txt = "absent" /\ io[i].zip = "absent"
        /\ Ops(i, "extract") # {} => io[i].txt = "absent"
        /\ Returned(i) => (Ops(i, "extract") # {} <=> io[i].txt = "absent")
        /\ \A f \in Ops(i, "urlretrieve") : \A x \in Ops(i, "extract") : f < x
        /\ Cardinality(Ops(i, "urlretrieve")) <= 1
        /\ Cardinality(Ops(i, "extract")) <= 1

\* One call returned after a fetch and an extraction, which left the text
\* file behind, and a later call returned without either.
C3_Witness ==
    /\ \E i \in Calls :
          /\ Returned(i)
          /\ Ops(i, "urlretrieve") # {}
          /\ Ops(i, "extract") # {}
          /\ TxtAfter(i) = "glove"
    /\ \E i \in Calls :
          /\ Returned(i)
          /\ Ops(i, "urlretrieve") = {}
          /\ Ops(i, "extract") = {}

(***************************************************************************)
(* C7.  Embedding-table lifecycle.  As claimed: the table is empty at the  *)
(* start of Extraction, no key is ever removed, and an entry once stored   *)
(* is never replaced by a later line of the source.                        *)
(***************************************************************************)
LastLine == lines'[Len(lines')]

NoDuplicateWords(ls) ==
    \A i, j \in DOMAIN ls :
        (i # j /\ NonBlank(ls[i]) /\ NonBlank(ls[j])) => WordOf(ls[i]) # WordOf(ls[j])

C7_WriteOnce_AsClaimed ==
    /\ [](lines = <<>> => embeddings = <<>>)
    /\ [][\A w \in Keys(embeddings) :
             /\ w \in Keys(embeddings')
             /\ Lookup(embeddings', w) = Lookup(embeddings, w)]_vars

(***************************************************************************)
(* C7, amended.  The table is empty at the start of Extraction and no key  *)
(* is ever removed; a step adds at most one entry; a stored vector is      *)
(* replaced only by a later kept line of 50 numeric components that        *)
(* repeats the word, so the entries are write-once when the source has no  *)
(* duplicate words.                                                        *)
(***************************************************************************)
C7_TableLifecycle ==
    /\ [](lines = <<>> => embeddings = <<>>)
    /\ [][/\ Len(embeddings') <= Len(embeddings) + 1
          /\ \A w \in Keys(embeddings) :
                /\ w \in Keys(embeddings')
                /\ Lookup(embeddings', w) # Lookup(embeddings, w) =>
                      /\ lines' # lines
                      /\ WellFormed(LastLine)
                      /\ WordOf(LastLine) = w
                      /\ (Len(lines) < VOCAB_SIZE \/ w \in REQUIRED_WORDS)
                      /\ \E i \in DOMAIN lines : WordOf(lines[i]) = w
                /\ NoDuplicateWords(lines') =>
                      Lookup(embeddings', w) = Lookup(embeddings, w)]_vars

\* Three lines with three different words were read and two words stored.
C7_Witness ==
    /\ Running
    /\ Len(lines) = 3
    /\ NoDuplicateWords(lines)
    /\ Len(embeddings) >= 2

(***************************************************************************)
(* C8.  Parse failures: a component that is no number on a kept line       *)
(* aborts the run at that line, with no output file ever written; the      *)
(* components of a line that is not kept are not parsed: whatever they     *)
(* are, the line is passed over without failure and without a change to    *)
(* the table.                                                              *)
(***************************************************************************)
C8_ParseFailures ==
    /\ [](/\ pc = "failed" => outFile = <<>>
          /\ \A i \in DOMAIN lines :
                (NonBlank(lines[i]) /\ KeptAt(i) /\ ~Numeric(lines[i])) =>
                    /\ i = Len(lines)
                    /\ pc = "failed"
                    /\ error = "ValueError"
                    /\ line_count = i - 1)
    /\ [][/\ pc = "failed" => pc' = "failed" /\ outFile' = outFile
          /\ (/\ lines' # lines
              /\ NonBlank(LastLine)
              /\ ~(Len(lines) < VOCAB_SIZE \/ WordOf(LastLine) \in REQUIRED_WORDS)) =>
                 /\ pc' = "loop"
                 /\ error' = "none"
                 /\ embeddings' = embeddings
                 /\ line_count' = line_count + 1]_vars

\* A line that is not kept, with a component that is no number, was passed
\* over; a later kept line with such a component aborted the run.
C8_Witness ==
    /\ pc = "failed"
    /\ error = "ValueError"
    /\ outFile = <<>>
    /\ \E i \in DOMAIN lines :
          i < Len(lines) /\ NonBlank(lines[i]) /\ ~KeptAt(i) /\ ~Numeric(lines[i])

(***************************************************************************)
(* C9.  Stage ordering: the working directory is set before any file       *)
(* operation; Extraction starts only after download_glove has returned,    *)
(* with every Acquisition step before that; download_glove is called once; *)
(* when Acquisition fails the process ends there: Extraction never starts  *)
(* and no output file is written.                                          *)
(***************************************************************************)
AcqOps == {"exists_txt", "exists_zip", "urlretrieve", "extract"}
ExtractionOps == {"open_txt", "write_json"}
At(op) == { i \in DOMAIN io : io[i].op = op }

C9_StageOrdering ==
    /\ [](/\ io # <<>> => (io[1].op = "chdir" /\ cwd = "script_dir")
          /\ At("chdir") \subseteq {1}
          /\ Cardinality(At("exists_txt")) <= 1
          /\ Cardinality(At("urlretrieve")) <= 1
          /\ Cardinality(At("extract")) <= 1
          /\ \A i \in DOMAIN io :
                io[i].op \in ExtractionOps =>
                   \E r \in At("returned") :
                      /\ r < i
                      /\ \A a \in DOMAIN io : io[a].op \in AcqOps => a < r
          /\ (pc \in {"generate_subset", "loop", "done"} \/ lines # <<>>) =>
                At("returned") # {}
          /\ \A i \in At("extract") :
                io[i].zip \notin Corpora => (i = Len(io) /\ pc = "failed")
          /\ (pc = "failed" /\ At("returned") = {}) =>
                /\ error \in {"URLError", "BadZipFile"}
                /\ io[Len(io)].op \in {"urlretrieve", "extract"}
                /\ At("open_txt") = {}
                /\ At("write_json") = {}
                /\ lines = <<>>
                /\ outFile = <<>>)
    /\ [][pc = "failed" => pc' = "failed"]_vars

\* The fetch delivered an archive that could not be extracted: the process
\* has ended with no Extraction and no output.
C9_Witness ==
    /\ pc = "failed"
    /\ error = "BadZipFile"
    /\ At("urlretrieve") # {}
    /\ At("extract") # {}
    /\ At("open_txt") = {}
    /\ outFile = <<>>

====
